---- MODULE Spec2Model ----
(***************************************************************************)
(* titiler/endpoints/stac.py: the query-parameter bundles AssetsBidxParams *)
(* and AssetsBidxExprParams, and the /info and /metadata handlers that     *)
(* STACTiler registers.                                                    *)
(*                                                                         *)
(* A Python str is a sequence of one-character strings.  Optional[x] is a  *)
(* sequence of length at most one: None is <<>>, a present value v is      *)
(* <<v>>.  A dict is a function whose domain is its key set.               *)
(***************************************************************************)
EXTENDS Integers, Sequences, FiniteSets, TLC

VARIABLES dep, requests, readers

vars == <<dep, requests, readers>>

(* ------------------------------ bounds --------------------------------- *)

\* longest raw query string drawn for assets / bidx
MaxLen == 3
\* number of requests in flight at once in the concurrent specification
NumRequests == 2

(* --------------------------- Python values ----------------------------- *)

None == <<>>

Some(v) == <<v>>

EmptyDict == [k \in {} |-> 0]

\* d[k] = v
SetItem(d, k, v) == [x \in (DOMAIN d) \cup {k} |-> IF x = k THEN v ELSE d[x]]

\* d.get(k)
Get(d, k) == IF k \in DOMAIN d THEN Some(d[k]) ELSE None

Digits == {"0", "1", "2", "3", "4", "5", "6", "7", "8", "9"}

DigitValue(c) ==
    CASE c = "0" -> 0 [] c = "1" -> 1 [] c = "2" -> 2 [] c = "3" -> 3
      [] c = "4" -> 4 [] c = "5" -> 5 [] c = "6" -> 6 [] c = "7" -> 7
      [] c = "8" -> 8 [] c = "9" -> 9

\* all strings over alphabet cs of length at most n
StringsUpTo(cs, n) == UNION {[1..k -> cs] : k \in 0..n}

\* Optional[str] query values
OptionalOf(S) == {None} \cup {Some(s) : s \in S}

(* ---------------------------- str.split(",") --------------------------- *)

RECURSIVE split_scan(_, _, _, _)
\* scan s from position i; cur is the token being read, acc the tokens done
split_scan(s, i, cur, acc) ==
    IF i > Len(s) THEN Append(acc, cur)
    ELSE IF s[i] = "," THEN split_scan(s, i + 1, <<>>, Append(acc, cur))
    ELSE split_scan(s, i + 1, Append(cur, s[i]), acc)

RECURSIVE split_dropempty(_)
split_dropempty(toks) ==
    IF toks = <<>> THEN <<>>
    ELSE IF Head(toks) = <<>> THEN split_dropempty(Tail(toks))
    ELSE <<Head(toks)>> \o split_dropempty(Tail(toks))

\* a split that discards empty tokens, as str.split() without a separator does
split_noempty(s) == split_dropempty(split_scan(s, 1, <<>>, <<>>))

\* self.assets.split(",")
split(s) == split_scan(s, 1, <<>>, <<>>)

(* ----------------------- re.findall(r"\d+", s) ------------------------- *)

RECURSIVE findall_scan(_, _, _, _)
\* cur is the digit run being read (empty when outside a run)
findall_scan(s, i, cur, acc) ==
    IF i > Len(s) THEN (IF cur = <<>> THEN acc ELSE Append(acc, cur))
    ELSE IF s[i] \in Digits THEN findall_scan(s, i + 1, Append(cur, s[i]), acc)
    ELSE findall_scan(s, i + 1, <<>>, IF cur = <<>> THEN acc ELSE Append(acc, cur))

\* r"\d" in place of r"\d+": every digit is a match of its own
findall_single(s) == SelectSeq([i \in 1..Len(s) |-> <<s[i]>>], LAMBDA t : t[1] \in Digits)

findall(s) == findall_scan(s, 1, <<>>, <<>>)

RECURSIVE int_acc(_, _, _)
int_acc(ds, i, n) ==
    IF i > Len(ds) THEN n ELSE int_acc(ds, i + 1, 10 * n + DigitValue(ds[i]))

\* int(s) for a string of decimal digits
int(ds) == int_acc(ds, 1, 0)

\* tuple(int(s) for s in re.findall(r"\d+", self.bidx))
indexes_of(bidx) == LET runs == findall(bidx) IN [i \in 1..Len(runs) |-> int(runs[i])]

(* ------------------------- parameter bundles --------------------------- *)

\* DefaultDependency: the kwargs container every bundle starts from
DefaultDependency_kwargs == EmptyDict

\* a bundle that always sets both keys, with None parsed as the empty value
AssetsBidxParams_post_init_defaults(kwargs, assets, bidx) ==
    LET k1 == SetItem(kwargs, "assets", IF assets # None THEN split(assets[1]) ELSE <<>>)
    IN  SetItem(k1, "indexes", IF bidx # None THEN indexes_of(bidx[1]) ELSE <<>>)

AssetsBidxParams_post_init(kwargs, assets, bidx) ==
    LET k1 == IF assets # None THEN SetItem(kwargs, "assets", split(assets[1])) ELSE kwargs
        k2 == IF bidx # None THEN SetItem(k1, "indexes", indexes_of(bidx[1])) ELSE k1
    IN  k2

AssetsBidxExprParams_post_init(kwargs, assets, expression, bidx) ==
    LET k1 == IF assets # None THEN SetItem(kwargs, "assets", split(assets[1])) ELSE kwargs
        k2 == IF expression # None THEN SetItem(k1, "expression", expression[1]) ELSE k1
        k3 == IF bidx # None THEN SetItem(k2, "indexes", indexes_of(bidx[1])) ELSE k2
    IN  k3

\* no bundle under construction (the handler specifications)
NoDep == [cls |-> "none", assets |-> None, expression |-> None, bidx |-> None,
          kwargs |-> EmptyDict, pc |-> "none"]

(* ------------------------ Python call semantics ------------------------ *)

Range(s) == {s[i] : i \in 1..Len(s)}

\* the dicts of ds, merged left to right, a later dict overriding an earlier one
MergeAll(ds) ==
    [k \in UNION {DOMAIN ds[i] : i \in 1..Len(ds)} |->
        LET last == CHOOSE i \in 1..Len(ds) :
                        /\ k \in DOMAIN ds[i]
                        /\ \A j \in (i + 1)..Len(ds) : k \notin DOMAIN ds[j]
        IN  ds[last][k]]

\* {**d1, **d2, ...}: a dict display, where the last write wins
KeywordArguments_lastwins(ds) == [ok |-> TRUE, kwargs |-> MergeAll(ds)]

\* f(**d1, **d2, ...): a key given by two of the dicts is a TypeError ("got
\* multiple values for keyword argument") raised before f is entered
KeywordArguments(ds) ==
    IF \E i, j \in 1..Len(ds) : i < j /\ (DOMAIN ds[i]) \cap (DOMAIN ds[j]) # {}
    THEN [ok |-> FALSE, kwargs |-> EmptyDict]
    ELSE [ok |-> TRUE, kwargs |-> MergeAll(ds)]

\* bool(x) for an Optional list: None and [] are falsy
Truthy(opt) == opt # None /\ Len(opt[1]) > 0

(* ------------------------------ the Reader ----------------------------- *)

\* the asset names of the STAC item the Reader serves
ReaderAssets == << <<"a">>, <<"b">> >>

ReaderErrors == {"RasterioIOError", "InvalidAssetName"}

List(items) == [type |-> "list", items |-> items]

Dict(items) == [type |-> "dict", items |-> items]

\* what a Reader's info(**kwargs) answers: one Info record per asset asked for
Reader_info(kwargs) ==
    Dict([a \in (IF "assets" \in DOMAIN kwargs THEN Range(kwargs["assets"])
                 ELSE Range(ReaderAssets)) |-> "Info"])

\* what a Reader's metadata(pmin, pmax, **kwargs) answers
Reader_metadata(pmin, pmax, kwargs) ==
    Dict([a \in (IF "assets" \in DOMAIN kwargs THEN Range(kwargs["assets"])
                 ELSE Range(ReaderAssets)) |-> "Metadata"])

\* a Reader instance with the record of what was done to it
NewReader(cls, url, r, error) ==
    [cls |-> cls, url |-> url, owner |-> r, entered |-> error = None, error |-> error,
     calls |-> <<>>, exits |-> <<>>]

Call(op, args, kwargs, outcome, value) ==
    [op |-> op, args |-> args, kwargs |-> kwargs, outcome |-> outcome, value |-> value]

(* ------------------------------ requests ------------------------------- *)

\* STACTiler.reader
self_reader == "STACReader"

Idle ==
    [endpoint |-> "none", pc |-> "idle", src_path |-> [url |-> "", reader |-> None],
     asset_params |-> [assets |-> None, bidx |-> None, kwargs |-> EmptyDict],
     metadata_params |-> [pmin |-> 0, pmax |-> 0, kwargs |-> EmptyDict],
     kwargs |-> EmptyDict, src_dst |-> None, info |-> None, exc |-> None]

\* the values the dependencies of a request are drawn from
Inputs ==
    [readers |-> {None, Some("COGReader")},
     assets |-> {None, Some(<<>>), Some(<<"a">>), Some(<<"b", ",", "a">>)},
     bidx |-> {None, Some(<<>>), Some(<<"1">>)},
     percentiles |-> {<<2, 98>>, <<5, 95>>},
     metadata_kwargs |-> {EmptyDict, "histogram_bins" :> 10, "indexes" :> <<9>>},
     kwargs |-> {EmptyDict, "nodata" :> 0, "histogram_bins" :> 20, "assets" :> << <<"b">> >>}]

ReaderErrorsConc == {"RasterioIOError"}

InputsConc ==
    [readers |-> {None},
     assets |-> {None, Some(<<"a">>)},
     bidx |-> {None},
     percentiles |-> {<<2, 98>>},
     metadata_kwargs |-> {EmptyDict},
     kwargs |-> {EmptyDict, "assets" :> << <<"b">> >>}]

\* Depends(AssetsBidxParams)
AssetsBidxParams(assets, bidx) ==
    [assets |-> assets, bidx |-> bidx,
     kwargs |-> AssetsBidxParams_post_init(DefaultDependency_kwargs, assets, bidx)]

\* the dependencies of GET /info are resolved and the handler is entered
ResolveInfo(r, in) ==
    /\ requests[r].pc = "idle"
    /\ \E rd \in in.readers, assets \in in.assets, bidx \in in.bidx, kw \in in.kwargs :
          requests' = [requests EXCEPT ![r] =
              [Idle EXCEPT !.endpoint = "info", !.pc = "handler",
                           !.src_path = [url |-> "item.json", reader |-> rd],
                           !.asset_params = AssetsBidxParams(assets, bidx),
                           !.kwargs = kw]]
    /\ UNCHANGED <<dep, readers>>

\* the dependencies of GET /metadata are resolved and the handler is entered
ResolveMetadata(r, in) ==
    /\ requests[r].pc = "idle"
    /\ \E rd \in in.readers, assets \in in.assets, bidx \in in.bidx, kw \in in.kwargs,
          pct \in in.percentiles, mkw \in in.metadata_kwargs :
          requests' = [requests EXCEPT ![r] =
              [Idle EXCEPT !.endpoint = "metadata", !.pc = "handler",
                           !.src_path = [url |-> "item.json", reader |-> rd],
                           !.asset_params = AssetsBidxParams(assets, bidx),
                           !.metadata_params = [pmin |-> pct[1], pmax |-> pct[2], kwargs |-> mkw],
                           !.kwargs = kw]]
    /\ UNCHANGED <<dep, readers>>

\* reader = src_path.reader or self.reader
SelectReader(src_path) ==
    IF src_path.reader # None THEN src_path.reader[1] ELSE self_reader

\* with reader(src_path.url, **self.reader_options) as src_dst: the Reader opens
OpenReader(r) ==
    /\ requests[r].pc = "handler"
    /\ readers' = Append(readers, NewReader(SelectReader(requests[r].src_path),
                                            requests[r].src_path.url, r, None))
    /\ requests' = [requests EXCEPT ![r].src_dst = Some(Len(readers) + 1),
                                    ![r].pc = "with_body"]
    /\ UNCHANGED dep

\* the Reader's construction raises: the with block is never entered
OpenReaderRaises(r, e) ==
    /\ requests[r].pc = "handler"
    /\ readers' = Append(readers, NewReader(SelectReader(requests[r].src_path),
                                            requests[r].src_path.url, r, Some(e)))
    /\ requests' = [requests EXCEPT ![r].exc = Some(e), ![r].pc = "raised"]
    /\ UNCHANGED dep

\* src_dst.<op> is recorded on the Reader r holds
Record(r, call) ==
    readers' = [readers EXCEPT ![requests[r].src_dst[1]].calls = Append(@, call)]

\* a test on the keys instead of the truthiness of the assets value
info_lists_assets_nokeys(kwargs) == DOMAIN kwargs = {}

\* if not asset_params.kwargs.get("assets")
info_lists_assets(kwargs) == ~Truthy(Get(kwargs, "assets"))

\* return src_dst.assets
InfoListAssets(r) ==
    /\ requests[r].pc = "with_body"
    /\ requests[r].endpoint = "info"
    /\ info_lists_assets(requests[r].asset_params.kwargs)
    /\ Record(r, Call("assets", <<>>, EmptyDict, "ok", List(ReaderAssets)))
    /\ requests' = [requests EXCEPT ![r].info = Some(List(ReaderAssets)),
                                    ![r].pc = "with_exit"]
    /\ UNCHANGED dep

\* src_dst.info(**asset_params.kwargs, **kwargs) with a key given twice
InfoKeywordClash(r) ==
    /\ requests[r].pc = "with_body"
    /\ requests[r].endpoint = "info"
    /\ ~info_lists_assets(requests[r].asset_params.kwargs)
    /\ ~KeywordArguments(<<requests[r].asset_params.kwargs, requests[r].kwargs>>).ok
    /\ requests' = [requests EXCEPT ![r].exc = Some("TypeError"), ![r].pc = "with_exit"]
    /\ UNCHANGED <<dep, readers>>

\* the call made with the bundle's arguments alone
InfoCallReturns_noextra(r) ==
    /\ requests[r].pc = "with_body"
    /\ requests[r].endpoint = "info"
    /\ ~info_lists_assets(requests[r].asset_params.kwargs)
    /\ LET ka == KeywordArguments(<<requests[r].asset_params.kwargs>>)
       IN  /\ ka.ok
           /\ Record(r, Call("info", <<>>, ka.kwargs, "ok", Reader_info(ka.kwargs)))
           /\ requests' = [requests EXCEPT ![r].info = Some(Reader_info(ka.kwargs)),
                                           ![r].pc = "with_exit"]
    /\ UNCHANGED dep

\* info = src_dst.info(**asset_params.kwargs, **kwargs)
InfoCallReturns(r) ==
    /\ requests[r].pc = "with_body"
    /\ requests[r].endpoint = "info"
    /\ ~info_lists_assets(requests[r].asset_params.kwargs)
    /\ LET ka == KeywordArguments(<<requests[r].asset_params.kwargs, requests[r].kwargs>>)
       IN  /\ ka.ok
           /\ Record(r, Call("info", <<>>, ka.kwargs, "ok", Reader_info(ka.kwargs)))
           /\ requests' = [requests EXCEPT ![r].info = Some(Reader_info(ka.kwargs)),
                                           ![r].pc = "with_exit"]
    /\ UNCHANGED dep

\* the error of the Reader caught and answered with the list of assets
InfoCallRaises_fallback(r, e) ==
    /\ requests[r].pc = "with_body"
    /\ requests[r].endpoint = "info"
    /\ ~info_lists_assets(requests[r].asset_params.kwargs)
    /\ LET ka == KeywordArguments(<<requests[r].asset_params.kwargs, requests[r].kwargs>>)
       IN  /\ ka.ok
           /\ Record(r, Call("info", <<>>, ka.kwargs, "error", e))
           /\ requests' = [requests EXCEPT ![r].info = Some(List(ReaderAssets)),
                                           ![r].pc = "with_exit"]
    /\ UNCHANGED dep

\* src_dst.info(...) raises e
InfoCallRaises(r, e) ==
    /\ requests[r].pc = "with_body"
    /\ requests[r].endpoint = "info"
    /\ ~info_lists_assets(requests[r].asset_params.kwargs)
    /\ LET ka == KeywordArguments(<<requests[r].asset_params.kwargs, requests[r].kwargs>>)
       IN  /\ ka.ok
           /\ Record(r, Call("info", <<>>, ka.kwargs, "error", e))
           /\ requests' = [requests EXCEPT ![r].exc = Some(e), ![r].pc = "with_exit"]
    /\ UNCHANGED dep

\* the three keyword sources of src_dst.metadata, in the order of the call
MetadataKeywords(q) ==
    KeywordArguments(<<q.asset_params.kwargs, q.metadata_params.kwargs, q.kwargs>>)

\* src_dst.metadata(pmin, pmax, **..., **..., **...) with a key given twice
MetadataKeywordClash(r) ==
    /\ requests[r].pc = "with_body"
    /\ requests[r].endpoint = "metadata"
    /\ ~MetadataKeywords(requests[r]).ok
    /\ requests' = [requests EXCEPT ![r].exc = Some("TypeError"), ![r].pc = "with_exit"]
    /\ UNCHANGED <<dep, readers>>

\* a metadata handler that lists the assets when none is selected, as info does
MetadataCallReturns_lists(r) ==
    /\ requests[r].pc = "with_body"
    /\ requests[r].endpoint = "metadata"
    /\ LET q == requests[r]
           ka == MetadataKeywords(q)
           value == Reader_metadata(q.metadata_params.pmin, q.metadata_params.pmax, ka.kwargs)
       IN  /\ ka.ok
           /\ IF info_lists_assets(q.asset_params.kwargs)
              THEN /\ Record(r, Call("assets", <<>>, EmptyDict, "ok", List(ReaderAssets)))
                   /\ requests' = [requests EXCEPT ![r].info = Some(List(ReaderAssets)),
                                                   ![r].pc = "with_exit"]
              ELSE /\ Record(r, Call("metadata",
                                     <<q.metadata_params.pmin, q.metadata_params.pmax>>,
                                     ka.kwargs, "ok", value))
                   /\ requests' = [requests EXCEPT ![r].info = Some(value),
                                                   ![r].pc = "with_exit"]
    /\ UNCHANGED dep

\* info = src_dst.metadata(metadata_params.pmin, metadata_params.pmax, **...)
MetadataCallReturns(r) ==
    /\ requests[r].pc = "with_body"
    /\ requests[r].endpoint = "metadata"
    /\ LET q == requests[r]
           ka == MetadataKeywords(q)
           value == Reader_metadata(q.metadata_params.pmin, q.metadata_params.pmax, ka.kwargs)
       IN  /\ ka.ok
           /\ Record(r, Call("metadata", <<q.metadata_params.pmin, q.metadata_params.pmax>>,
                             ka.kwargs, "ok", value))
           /\ requests' = [requests EXCEPT ![r].info = Some(value), ![r].pc = "with_exit"]
    /\ UNCHANGED dep

\* src_dst.metadata(...) raises e
MetadataCallRaises(r, e) ==
    /\ requests[r].pc = "with_body"
    /\ requests[r].endpoint = "metadata"
    /\ LET q == requests[r]
           ka == MetadataKeywords(q)
       IN  /\ ka.ok
           /\ Record(r, Call("metadata", <<q.metadata_params.pmin, q.metadata_params.pmax>>,
                             ka.kwargs, "error", e))
           /\ requests' = [requests EXCEPT ![r].exc = Some(e), ![r].pc = "with_exit"]
    /\ UNCHANGED dep

\* a close() at the end of the block, which an exception skips
ReaderExit_skipped_on_error(r) ==
    /\ requests[r].pc = "with_exit"
    /\ readers' = [readers EXCEPT ![requests[r].src_dst[1]].exits =
                       IF requests[r].exc = None THEN Append(@, r) ELSE @]
    /\ requests' = [requests EXCEPT ![r].pc = "after_with"]
    /\ UNCHANGED dep

\* the with block is left, by return or by exception: src_dst.__exit__ runs
ReaderExit(r) ==
    /\ requests[r].pc = "with_exit"
    /\ readers' = [readers EXCEPT ![requests[r].src_dst[1]].exits = Append(@, r)]
    /\ requests' = [requests EXCEPT ![r].pc = "after_with"]
    /\ UNCHANGED dep

\* return info, or the exception leaves the handler
Finish(r) ==
    /\ requests[r].pc = "after_with"
    /\ requests' = [requests EXCEPT ![r].pc =
                       IF requests[r].exc = None THEN "returned" ELSE "raised"]
    /\ UNCHANGED <<dep, readers>>

\* one request, every combination of its dependencies
Init ==
    /\ dep = NoDep
    /\ requests = [r \in {1} |-> Idle]
    /\ readers = <<>>

Next ==
    \/ \E r \in DOMAIN requests : ResolveInfo(r, Inputs)
    \/ \E r \in DOMAIN requests : ResolveMetadata(r, Inputs)
    \/ \E r \in DOMAIN requests : OpenReader(r)
    \/ \E r \in DOMAIN requests, e \in ReaderErrors : OpenReaderRaises(r, e)
    \/ \E r \in DOMAIN requests : InfoListAssets(r)
    \/ \E r \in DOMAIN requests : InfoKeywordClash(r)
    \/ \E r \in DOMAIN requests : InfoCallReturns(r)
    \/ \E r \in DOMAIN requests, e \in ReaderErrors : InfoCallRaises(r, e)
    \/ \E r \in DOMAIN requests : MetadataKeywordClash(r)
    \/ \E r \in DOMAIN requests : MetadataCallReturns(r)
    \/ \E r \in DOMAIN requests, e \in ReaderErrors : MetadataCallRaises(r, e)
    \/ \E r \in DOMAIN requests : ReaderExit(r)
    \/ \E r \in DOMAIN requests : Finish(r)

Spec == Init /\ [][Next]_vars

\* NumRequests requests whose handlers interleave
InitConc ==
    /\ dep = NoDep
    /\ requests = [r \in 1..NumRequests |-> Idle]
    /\ readers = <<>>

NextConc ==
    \/ \E r \in DOMAIN requests : ResolveInfo(r, InputsConc)
    \/ \E r \in DOMAIN requests : ResolveMetadata(r, InputsConc)
    \/ \E r \in DOMAIN requests : OpenReader(r)
    \/ \E r \in DOMAIN requests, e \in ReaderErrorsConc : OpenReaderRaises(r, e)
    \/ \E r \in DOMAIN requests : InfoListAssets(r)
    \/ \E r \in DOMAIN requests : InfoKeywordClash(r)
    \/ \E r \in DOMAIN requests : InfoCallReturns(r)
    \/ \E r \in DOMAIN requests, e \in ReaderErrorsConc : InfoCallRaises(r, e)
    \/ \E r \in DOMAIN requests : MetadataKeywordClash(r)
    \/ \E r \in DOMAIN requests : MetadataCallReturns(r)
    \/ \E r \in DOMAIN requests, e \in ReaderErrorsConc : MetadataCallRaises(r, e)
    \/ \E r \in DOMAIN requests : ReaderExit(r)
    \/ \E r \in DOMAIN requests : Finish(r)

SpecConc == InitConc /\ [][NextConc]_vars

(* --------------- bundle construction as a state machine ---------------- *)

AssetChars == {"a", "b", ","}

BidxChars == {"0", "5", ",", "-"}

Expressions == {<<>>, <<"a", "/", "b">>}

\* the dataclass fields as the Query(...) declarations fill them, before __post_init__
NewDep(cls, assets, expression, bidx) ==
    [cls |-> cls, assets |-> assets, expression |-> expression, bidx |-> bidx,
     kwargs |-> DefaultDependency_kwargs, pc |-> "init"]

NoRequests == [r \in {} |-> 0]

InitParams ==
    /\ \E assets \in OptionalOf(StringsUpTo(AssetChars, MaxLen)),
          bidx \in OptionalOf(StringsUpTo(BidxChars, MaxLen)) :
          \/ dep = NewDep("AssetsBidxParams", assets, None, bidx)
          \/ \E expression \in OptionalOf(Expressions) :
                dep = NewDep("AssetsBidxExprParams", assets, expression, bidx)
    /\ requests = NoRequests
    /\ readers = <<>>

ConstructAssetsBidxParams ==
    /\ dep.cls = "AssetsBidxParams"
    /\ dep.pc = "init"
    /\ dep' = [dep EXCEPT !.kwargs = AssetsBidxParams_post_init(dep.kwargs, dep.assets, dep.bidx),
                          !.pc = "done"]
    /\ UNCHANGED <<requests, readers>>

ConstructAssetsBidxExprParams ==
    /\ dep.cls = "AssetsBidxExprParams"
    /\ dep.pc = "init"
    /\ dep' = [dep EXCEPT !.kwargs = AssetsBidxExprParams_post_init(
                                         dep.kwargs, dep.assets, dep.expression, dep.bidx),
                          !.pc = "done"]
    /\ UNCHANGED <<requests, readers>>

NextParams == ConstructAssetsBidxParams \/ ConstructAssetsBidxExprParams

SpecParams == InitParams /\ [][NextParams]_vars

(* ------------------------ claims on the bundles ------------------------ *)

SuppliedKeys(d) ==
    (IF d.assets # None THEN {"assets"} ELSE {})
        \cup (IF d.bidx # None THEN {"indexes"} ELSE {})
        \cup (IF d.expression # None THEN {"expression"} ELSE {})

\* C1: for both bundle variants and every combination of present/absent
\* selectors, the constructed bundle's key set is exactly the set of supplied
\* selectors (assets -> "assets", bidx -> "indexes", expression ->
\* "expression"); a present empty string still inserts its key.
C1_KeysExactlySupplied ==
    dep.pc = "done" => DOMAIN dep.kwargs = SuppliedKeys(dep)

\* C1 witness: the Expr variant built from an empty-but-present assets and an
\* expression, without bidx.
C1_Witness ==
    /\ dep.pc = "done"
    /\ dep.cls = "AssetsBidxExprParams"
    /\ dep.assets = Some(<<>>)
    /\ dep.bidx = None
    /\ dep.expression # None
    /\ DOMAIN dep.kwargs = {"assets", "expression"}

RECURSIVE Join(_)
\* ",".join(toks)
Join(toks) ==
    IF Len(toks) = 0 THEN <<>>
    ELSE IF Len(toks) = 1 THEN toks[1]
    ELSE toks[1] \o <<",">> \o Join(Tail(toks))

Commas(s) == Cardinality({i \in 1..Len(s) : s[i] = ","})

\* C7: for a present asset selector s the "assets" value is the sequence of
\* substrings of s between commas, in order, empty tokens and duplicates kept:
\* one token per comma plus one, no token holds a comma, and joining with ","
\* gives back s; it is never the empty sequence.  An absent selector leaves
\* the key out.
C7_SplitOnComma ==
    dep.pc = "done" =>
        IF dep.assets = None THEN "assets" \notin DOMAIN dep.kwargs
        ELSE /\ "assets" \in DOMAIN dep.kwargs
             /\ LET toks == dep.kwargs["assets"]
                IN  /\ Len(toks) = Commas(dep.assets[1]) + 1
                    /\ \A i \in 1..Len(toks) : \A j \in 1..Len(toks[i]) : toks[i][j] # ","
                    /\ Join(toks) = dep.assets[1]

\* C7 witness: "a,," parses to the three tokens "a", "", "".
C7_Witness ==
    /\ dep.pc = "done"
    /\ dep.assets = Some(<<"a", ",", ",">>)
    /\ dep.kwargs["assets"] = << <<"a">>, <<>>, <<>> >>

\* positions where a maximal run of digits starts
RunStarts(s) ==
    {i \in 1..Len(s) : s[i] \in Digits /\ (i = 1 \/ s[i - 1] \notin Digits)}

\* the last position of the maximal run that starts at i
RunEnd(s, i) ==
    CHOOSE j \in i..Len(s) :
        /\ \A k \in i..j : s[k] \in Digits
        /\ j = Len(s) \/ s[j + 1] \notin Digits

RECURSIVE Pow10(_)
Pow10(n) == IF n = 0 THEN 1 ELSE 10 * Pow10(n - 1)

RECURSIVE SumOver(_, _, _)
\* the decimal value of s[i..j]
SumOver(s, i, j) ==
    IF i > j THEN 0 ELSE DigitValue(s[i]) * Pow10(j - i) + SumOver(s, i + 1, j)

\* the k-th smallest element of a set of integers
Kth(S, k) == CHOOSE x \in S : Cardinality({y \in S : y < x}) = k - 1

\* C8: for a present band-index selector the "indexes" value holds one integer
\* per maximal run of decimal digits, in order of appearance, each the decimal
\* value of its run (leading zeros vanish, signs and separators are ignored);
\* a string without digits gives the empty sequence with the key present.  An
\* absent selector leaves the key out.
C8_DigitRuns ==
    dep.pc = "done" =>
        IF dep.bidx = None THEN "indexes" \notin DOMAIN dep.kwargs
        ELSE /\ "indexes" \in DOMAIN dep.kwargs
             /\ LET s == dep.bidx[1]
                    idx == dep.kwargs["indexes"]
                    starts == RunStarts(s)
                IN  /\ Len(idx) = Cardinality(starts)
                    /\ \A k \in 1..Len(idx) :
                          idx[k] = SumOver(s, Kth(starts, k), RunEnd(s, Kth(starts, k)))

\* C8 witness: "-05" parses to the single index 5.
C8_Witness ==
    /\ dep.pc = "done"
    /\ dep.bidx = Some(<<"-", "0", "5">>)
    /\ dep.kwargs["indexes"] = <<5>>

(* ----------------------- claims on the handlers ------------------------ *)

Finished(q) == q.pc \in {"returned", "raised"}

\* the with block of q was entered and its body is over
BodyDone(q) == q.pc \in {"with_exit", "after_with"} \/ (Finished(q) /\ q.src_dst # None)

\* the Readers constructed for request r
ReadersOf(r) == {i \in 1..Len(readers) : readers[i].owner = r}

\* the operations request r invoked on its Reader, in order
CallsOf(r) == IF requests[r].src_dst = None THEN <<>> ELSE readers[requests[r].src_dst[1]].calls

OpsOf(r) == [i \in 1..Len(CallsOf(r)) |-> CallsOf(r)[i].op]

\* C2: in any interleaving of info and metadata requests, a Reader that a
\* request opened is released by that request and by no other, never twice,
\* and it has been released once when the request has returned or raised, on
\* the catalog path, the per-asset path, the metadata path and the failure
\* paths alike; a Reader whose construction failed is never released.
C2_ReleasedExactlyOnce ==
    \A i \in 1..Len(readers) :
        LET rd == readers[i]
        IN  /\ Len(rd.exits) <= 1
            /\ \A k \in 1..Len(rd.exits) : rd.exits[k] = rd.owner
            /\ ~rd.entered => rd.exits = <<>>
            /\ requests[rd.owner].pc \in {"handler", "with_body", "with_exit"} => rd.exits = <<>>
            /\ (rd.entered /\ requests[rd.owner].pc \in {"after_with", "returned", "raised"})
                   => rd.exits = <<rd.owner>>

\* C2 witness: two requests overlapped, the one whose Reader was opened second
\* failed in the Reader's operation, the other returned, both Readers released.
C2_Witness ==
    /\ Len(readers) = 2
    /\ readers[1].owner # readers[2].owner
    /\ readers[1].entered /\ readers[2].entered
    /\ requests[readers[1].owner].pc = "returned"
    /\ requests[readers[2].owner].pc = "raised"
    /\ requests[readers[2].owner].exc = Some("RasterioIOError")
    /\ readers[1].exits = <<readers[1].owner>>
    /\ readers[2].exits = <<readers[2].owner>>

\* two of the three keyword sources of a metadata request share a name
Clash(q) ==
    \/ (DOMAIN q.asset_params.kwargs) \cap (DOMAIN q.metadata_params.kwargs) # {}
    \/ (DOMAIN q.asset_params.kwargs) \cap (DOMAIN q.kwargs) # {}
    \/ (DOMAIN q.metadata_params.kwargs) \cap (DOMAIN q.kwargs) # {}

\* the value the last of the three sources that defines k gives it
LastValue(q, k) ==
    IF k \in DOMAIN q.kwargs THEN q.kwargs[k]
    ELSE IF k \in DOMAIN q.metadata_params.kwargs THEN q.metadata_params.kwargs[k]
    ELSE q.asset_params.kwargs[k]

\* C3 as stated: when two keyword sources of a metadata request define the
\* same name and the Reader itself does not fail, the request succeeds and
\* the metadata operation was invoked with the later source's value.
C3_LastWriteWins ==
    \A r \in DOMAIN requests :
        LET q == requests[r]
        IN  (q.endpoint = "metadata" /\ Finished(q) /\ Clash(q)
                /\ q.exc \notin {Some(e) : e \in ReaderErrors})
            => /\ q.pc = "returned"
               /\ Len(CallsOf(r)) = 1
               /\ CallsOf(r)[1].op = "metadata"
               /\ \A k \in DOMAIN CallsOf(r)[1].kwargs :
                      CallsOf(r)[1].kwargs[k] = LastValue(q, k)

\* C3 amended: when two keyword sources of a metadata request define the same
\* name, the call raises TypeError before the Reader's metadata operation is
\* entered: nothing is invoked on the Reader, no response is produced and the
\* request ends raising TypeError; when the names are pairwise distinct the
\* operation is invoked with every entry of the three sources.
C3_ClashRaisesTypeError ==
    \A r \in DOMAIN requests :
        LET q == requests[r]
        IN  (q.endpoint = "metadata" /\ BodyDone(q)) =>
                IF Clash(q)
                THEN /\ q.exc = Some("TypeError")
                     /\ q.info = None
                     /\ CallsOf(r) = <<>>
                     /\ q.pc # "returned"
                ELSE /\ Len(CallsOf(r)) = 1
                     /\ CallsOf(r)[1].op = "metadata"
                     /\ DOMAIN CallsOf(r)[1].kwargs =
                            (DOMAIN q.asset_params.kwargs)
                                \cup (DOMAIN q.metadata_params.kwargs) \cup (DOMAIN q.kwargs)
                     /\ \A k \in DOMAIN CallsOf(r)[1].kwargs :
                            CallsOf(r)[1].kwargs[k] = LastValue(q, k)

\* C3 witness: metadata_params and the extra dependency both give
\* histogram_bins, and the request has ended raising TypeError with its Reader
\* released.
C3_Witness ==
    \E r \in DOMAIN requests :
        /\ requests[r].endpoint = "metadata"
        /\ requests[r].pc = "raised"
        /\ requests[r].metadata_params.kwargs = ("histogram_bins" :> 10)
        /\ requests[r].kwargs = ("histogram_bins" :> 20)
        /\ requests[r].exc = Some("TypeError")
        /\ readers[requests[r].src_dst[1]].exits = <<r>>

\* C4: an info request without the assets parameter, whatever its bidx, never
\* invokes the Reader's info operation, and once its Reader is open it
\* answers the Reader's asset-name list unchanged.
C4_NoAssetsListsCatalog ==
    \A r \in DOMAIN requests :
        LET q == requests[r]
        IN  (q.endpoint = "info" /\ q.asset_params.assets = None) =>
                /\ \A i \in 1..Len(CallsOf(r)) : CallsOf(r)[i].op = "assets"
                /\ BodyDone(q) =>
                       /\ q.exc = None
                       /\ q.info # None
                       /\ q.info[1].type = "list"
                       /\ q.info[1].items = ReaderAssets
                       /\ OpsOf(r) = <<"assets">>
                /\ q.pc = "raised" => q.src_dst = None

\* C4 witness: GET /info?bidx=1 has returned the asset-name list.
C4_Witness ==
    \E r \in DOMAIN requests :
        /\ requests[r].endpoint = "info"
        /\ requests[r].asset_params.assets = None
        /\ requests[r].asset_params.bidx = Some(<<"1">>)
        /\ requests[r].pc = "returned"
        /\ requests[r].info = Some(List(ReaderAssets))

\* C5: an info request whose assets value is a non-empty list invokes the
\* Reader's info operation at most once and never reads the catalog; when it
\* returns, that one invocation carried exactly the bundle's entries (assets,
\* and indexes only if bidx was supplied) and the extra dependency's entries,
\* and the response is the mapping the Reader produced.
C5_PerAssetInfo ==
    \A r \in DOMAIN requests :
        LET q == requests[r]
            b == q.asset_params.kwargs
        IN  (q.endpoint = "info" /\ Truthy(Get(b, "assets"))) =>
                /\ \A i \in 1..Len(CallsOf(r)) : CallsOf(r)[i].op = "info"
                /\ Len(CallsOf(r)) <= 1
                /\ q.pc = "returned" =>
                       /\ Len(CallsOf(r)) = 1
                       /\ LET c == CallsOf(r)[1]
                          IN  /\ c.args = <<>>
                              /\ DOMAIN c.kwargs = (DOMAIN b) \cup (DOMAIN q.kwargs)
                              /\ \A k \in DOMAIN b : c.kwargs[k] = b[k]
                              /\ \A k \in DOMAIN q.kwargs : c.kwargs[k] = q.kwargs[k]
                              /\ ("indexes" \in DOMAIN c.kwargs) = (q.asset_params.bidx # None)
                              /\ c.outcome = "ok"
                              /\ q.info = Some(c.value)
                              /\ c.value.type = "dict"

\* C5 witness: GET /info?assets=b,a&bidx=1 with nodata from the extra
\* dependency has returned a mapping keyed by a and b.
C5_Witness ==
    \E r \in DOMAIN requests :
        /\ requests[r].endpoint = "info"
        /\ requests[r].asset_params.assets = Some(<<"b", ",", "a">>)
        /\ requests[r].asset_params.bidx = Some(<<"1">>)
        /\ requests[r].kwargs = ("nodata" :> 0)
        /\ requests[r].pc = "returned"
        /\ Len(CallsOf(r)) = 1
        /\ CallsOf(r)[1].kwargs["assets"] = << <<"b">>, <<"a">> >>
        /\ CallsOf(r)[1].kwargs["indexes"] = <<1>>
        /\ CallsOf(r)[1].kwargs["nodata"] = 0
        /\ requests[r].info[1].type = "dict"
        /\ DOMAIN requests[r].info[1].items = {<<"a">>, <<"b">>}

\* C6: a metadata request, with assets absent, empty or not, never reads the
\* Reader's asset-name list and never answers a list; it invokes the metadata
\* operation at most once, and when it returns it has invoked it exactly once
\* with pmin and pmax as the two positional arguments and answers the mapping
\* that invocation produced.
C6_MetadataAlwaysMapping ==
    \A r \in DOMAIN requests :
        LET q == requests[r]
        IN  q.endpoint = "metadata" =>
                /\ \A i \in 1..Len(CallsOf(r)) : CallsOf(r)[i].op = "metadata"
                /\ Len(CallsOf(r)) <= 1
                /\ q.info # None => q.info[1].type = "dict"
                /\ q.pc = "returned" =>
                       /\ Len(CallsOf(r)) = 1
                       /\ CallsOf(r)[1].args = <<q.metadata_params.pmin, q.metadata_params.pmax>>
                       /\ CallsOf(r)[1].outcome = "ok"
                       /\ q.info = Some(CallsOf(r)[1].value)

\* C6 witness: GET /metadata?pmin=5&pmax=95 without assets has returned a
\* mapping after one metadata(5, 95, ...) invocation.
C6_Witness ==
    \E r \in DOMAIN requests :
        /\ requests[r].endpoint = "metadata"
        /\ requests[r].asset_params.assets = None
        /\ requests[r].pc = "returned"
        /\ Len(CallsOf(r)) = 1
        /\ CallsOf(r)[1].args = <<5, 95>>
        /\ requests[r].info[1].type = "dict"

\* C9 as stated: GET /info?assets= (the empty string) takes the
\* catalog-listing branch: the bundle's assets value is empty, the Reader's
\* info operation is not invoked and the asset-name list is returned.
C9_EmptySelectorListsCatalog ==
    \A r \in DOMAIN requests :
        LET q == requests[r]
        IN  (q.endpoint = "info" /\ q.asset_params.assets = Some(<<>>) /\ q.pc = "returned") =>
                /\ \A i \in 1..Len(CallsOf(r)) : CallsOf(r)[i].op # "info"
                /\ q.info[1].type = "list"

\* C9 amended: GET /info?assets= parses to the one-element list holding the
\* empty name, which is truthy, so the request never reads or answers the
\* Reader's asset-name list: the only operation it invokes is info, with
\* assets = [""], and when it returns it answers the mapping that produced.
C9_EmptySelectorCallsInfo ==
    \A r \in DOMAIN requests :
        LET q == requests[r]
        IN  (q.endpoint = "info" /\ q.asset_params.assets = Some(<<>>)) =>
                /\ q.asset_params.kwargs["assets"] = << <<>> >>
                /\ \A i \in 1..Len(CallsOf(r)) :
                       /\ CallsOf(r)[i].op = "info"
                       /\ CallsOf(r)[i].kwargs["assets"] = << <<>> >>
                /\ q.info # None => q.info[1].type = "dict"
                /\ q.pc = "returned" =>
                       /\ Len(CallsOf(r)) = 1
                       /\ q.info = Some(CallsOf(r)[1].value)

\* C9 witness: GET /info?assets= has returned the mapping of an info
\* invocation made with assets = [""].
C9_Witness ==
    \E r \in DOMAIN requests :
        /\ requests[r].endpoint = "info"
        /\ requests[r].asset_params.assets = Some(<<>>)
        /\ requests[r].pc = "returned"
        /\ Len(CallsOf(r)) = 1
        /\ CallsOf(r)[1].op = "info"
        /\ CallsOf(r)[1].kwargs["assets"] = << <<>> >>
        /\ requests[r].info[1].type = "dict"

\* the error a Reader failure of request r raised, if any
ReaderFailures(r) ==
    {readers[i].error[1] : i \in {j \in ReadersOf(r) : readers[j].error # None}}
        \cup {CallsOf(r)[i].value : i \in {j \in 1..Len(CallsOf(r)) : CallsOf(r)[j].outcome = "error"}}

\* C10: when the construction of the Reader or its info/metadata operation
\* fails, the request carries that same error and ends raising it: it has no
\* response value, it made no other invocation on the Reader (neither the
\* failed one again nor the catalog as a fallback) and it constructed no
\* second Reader.
C10_FailurePropagates ==
    \A r \in DOMAIN requests :
        LET q == requests[r]
        IN  ReaderFailures(r) # {} =>
                /\ \E e \in ReaderFailures(r) : ReaderFailures(r) = {e} /\ q.exc = Some(e)
                /\ q.info = None
                /\ q.pc # "returned"
                /\ q.pc \in {"with_exit", "after_with", "raised"}
                /\ Cardinality(ReadersOf(r)) = 1
                /\ Len(CallsOf(r)) = (IF q.src_dst = None THEN 0 ELSE 1)

\* C10 witness: GET /info?assets=a whose Reader raised InvalidAssetName has
\* ended raising InvalidAssetName.
C10_Witness ==
    \E r \in DOMAIN requests :
        /\ requests[r].endpoint = "info"
        /\ requests[r].pc = "raised"
        /\ requests[r].exc = Some("InvalidAssetName")
        /\ Len(CallsOf(r)) = 1
        /\ CallsOf(r)[1].outcome = "error"
        /\ CallsOf(r)[1].value = "InvalidAssetName"

====
